---------------------------- MODULE Spec2Model ----------------------------
(* Model of src/server.js: the /call websocket route of the AI            *)
(* receptionist.  One connection (one call) is modelled: its closure      *)
(* state (conversation, callActive), the socket, and one asynchronous     *)
(* invocation of the 'message' handler per inbound frame.  A handler      *)
(* invocation runs synchronously up to its next `await`; every action     *)
(* below is one such run-to-completion segment.                           *)
EXTENDS Integers, Sequences, FiniteSets, TLC

(* ---------------------------------------------------------------------- *)
(* Bounds                                                                 *)
(* ---------------------------------------------------------------------- *)
\* number of inbound frames delivered on the connection
MaxEvents == 2

(* ---------------------------------------------------------------------- *)
(* Texts.  A text is a sequence of one-character strings, so that trim,   *)
(* toLowerCase and the regular expression are computed character by       *)
(* character.  The two fixed messages are kept as one opaque token each:  *)
(* the code only stores and forwards them.                                *)
(* ---------------------------------------------------------------------- *)
\* JavaScript undefined as the value of a response field: a one-token
\* sequence, which no text equals
Undefined == <<"undefined">>

\* an environment variable that is not set
Unset == "unset"

\* history values of a transcription call: not resolved yet, rejected
Pending == <<"pending">>
Rejected == <<"rejected">>

systemPrompt == <<"You are the receptionist for The Law Offices of Pritpal Singh.">>

afterHoursText == <<"Our office hours are Monday through Friday, 8 AM to 6 PM Pacific. ...">>

Whitespace == {" ", "\n", "\t"}

\* the letters of the texts used here; every other character is its own
\* lower case and is no word character
UpperToLower == [c \in {"B", "R", "S"} |->
                   CASE c = "B" -> "b" [] c = "R" -> "r" [] c = "S" -> "s"]

\* \w of the texts used here
WordChars == {"a", "b", "c", "d", "e", "g", "h", "i", "k", "l", "n", "o", "r", "s", "u", "w",
              "B", "R", "S"}

\* String.prototype.trim
RECURSIVE TrimLeft(_)
TrimLeft(s) == IF s # <<>> /\ Head(s) \in Whitespace THEN TrimLeft(Tail(s)) ELSE s

RECURSIVE TrimRight(_)
TrimRight(s) == IF s # <<>> /\ s[Len(s)] \in Whitespace
                THEN TrimRight(SubSeq(s, 1, Len(s) - 1)) ELSE s

Trim(s) == TrimRight(TrimLeft(s))

\* String.prototype.toLowerCase
ToLowerCase(s) == [i \in 1..Len(s) |-> IF s[i] \in DOMAIN UpperToLower THEN UpperToLower[s[i]] ELSE s[i]]

\* one alternative \bw\b of the regular expression, w a word of word characters
WordAt(s, w, i) ==
    /\ i + Len(w) - 1 <= Len(s)
    /\ SubSeq(s, i, i + Len(w) - 1) = w
    /\ (i = 1 \/ s[i - 1] \notin WordChars)
    /\ (i + Len(w) - 1 = Len(s) \/ s[i + Len(w)] \notin WordChars)

MatchesWord(s, w) == \E i \in 1..Len(s) : WordAt(s, w, i)

kwSchedule == <<"s", "c", "h", "e", "d", "u", "l", "e">>
kwBook == <<"b", "o", "o", "k">>

\* (mutant) the test without toLowerCase()
SuggestsSchedulingCaseSensitive(assistantText) ==
    MatchesWord(assistantText, kwSchedule) \/ MatchesWord(assistantText, kwBook)

\* /\bschedule\b|\bbook\b/.test(assistantText.toLowerCase())
SuggestsScheduling(assistantText) ==
    LET t == ToLowerCase(assistantText)
    IN  MatchesWord(t, kwSchedule) \/ MatchesWord(t, kwBook)

\* JavaScript truthiness of an environment variable: unset or "" is falsy
Truthy(v) == v # Unset /\ v # ""

(* ---------------------------------------------------------------------- *)
(* Business hours.  A Date is an absolute number of hours since a Sunday  *)
(* 00:00 UTC, with the daylight-saving flag of that instant.              *)
(* ---------------------------------------------------------------------- *)
Weekdays == <<"Sun", "Mon", "Tue", "Wed", "Thu", "Fri", "Sat">>

\* Intl.DateTimeFormat(... timeZone: 'America/Los_Angeles' ...).formatToParts
PacificParts(date) ==
    LET local == (date.utc - (IF date.dst THEN 7 ELSE 8)) % 168
    IN  [weekday |-> Weekdays[(local \div 24) + 1], hour |-> local % 24]

isBusinessHours(date) ==
    LET parts == PacificParts(date)
        day == parts.weekday
        hour == parts.hour
    IN  day \notin {"Sat", "Sun"} /\ hour >= 8 /\ hour < 18

\* the instants the wall clock passes through during the call, in order:
\* Fri 17:00 PST (Sat 01:00 UTC), Fri 18:00 PST, Mon 08:00 PDT (Mon 15:00 UTC)
ClockSamples == << [utc |-> 145, dst |-> FALSE],
                   [utc |-> 146, dst |-> FALSE],
                   [utc |-> 207, dst |-> TRUE] >>

(* ---------------------------------------------------------------------- *)
(* Inputs                                                                 *)
(* ---------------------------------------------------------------------- *)
\* inbound frames: media with a payload, stop, another event tag (start,
\* connected, mark), a media frame without msg.media, text that is not JSON
FrameKinds == {"media", "stop", "other", "nomedia", "badjson"}

\* resp.data of the transcription call
RawTranscripts == {Undefined, <<>>, <<" ", "\n">>, <<" ", "h", "i", "\n">>}

\* completion.data.choices[0].message.content
\* (absent, "Book now", "booking", "an e-book, a book", "ReSchedule")
ChatReplies == {Undefined,
                <<"B", "o", "o", "k", " ", "n", "o", "w">>,
                <<"b", "o", "o", "k", "i", "n", "g">>,
                <<"a", "n", " ", "e", "-", "b", "o", "o", "k", ",", " ", "a", " ", "b", "o", "o", "k">>,
                <<"R", "e", "S", "c", "h", "e", "d", "u", "l", "e">>}

EnvValues == {Unset, "", "set"}

VARIABLES
    conversation,   \* the closure's conversation array; each Turn carries the
                    \* number of the handler invocation that pushed it (0: setup)
    callActive,     \* the closure's callActive flag
    readyState,     \* connection.socket.readyState
    handlers,       \* the invocations of the 'message' handler, in arrival order
    outbound,       \* frames handed to connection.socket.send
    smsOut,         \* twilioClient.messages.create calls
    env,            \* process.env: CALENDLY_LINK, CALLER_PHONE, TWILIO_NUMBER
    clock,          \* index in ClockSamples of the current instant
    stops,          \* number of times callActive went from true to false
    escaped         \* errors thrown out of the handler (rejected handler promises)

vars == <<conversation, callActive, readyState, handlers, outbound, smsOut,
          env, clock, stops, escaped>>


(* ---------------------------------------------------------------------- *)
(* Helpers of the handler                                                 *)
(* ---------------------------------------------------------------------- *)
Turn(role, content, e) == [role |-> role, content |-> content, ev |-> e]

\* (mutant) unshift instead of push
PushFront(conv, role, content, e) == <<Turn(role, content, e)>> \o conv

\* conversation.push({ role, content })
Push(conv, role, content, e) == Append(conv, Turn(role, content, e))

\* (mutant) the transcription returned without trim()
speechToTextNoTrim(data) == IF data = Undefined THEN <<>> ELSE data

\* return (resp.data || '').trim()
speechToText(data) == Trim(IF data = Undefined THEN <<>> ELSE data)

\* return completion.data.choices[0].message.content || ''
chatCompletion(content) == IF content = Undefined THEN <<>> ELSE content

\* (mutant) only the newest message is sent to the completion engine
ChatArgumentLastOnly(conv) == <<conv[Len(conv)]>>

\* messages: conversation, the argument of openai.createChatCompletion
ChatArgument(conv) == conv

\* textToSpeech's result for a text, and the frame built from it
Pcm(text) == [pcmOf |-> text]

MediaFrame(pcm, e) == [event |-> "media", payload |-> [base64 |-> pcm], ev |-> e]

\* (mutant) the instant taken once, when the call starts
PolicyInstantAtCallStart(clk) == ClockSamples[1]

\* new Date(), the default argument of isBusinessHours
PolicyInstant(clk) == ClockSamples[clk]

\* (mutant) the guard left out
AcceptsAlways(active) == TRUE

\* (mutant) a busy guard: a frame is also skipped while an earlier
\* invocation is still suspended
AcceptsOnlyWhenIdle(active) ==
    active /\ \A e \in DOMAIN handlers : handlers[e].pc = "done"

\* if (!callActive) return;
Accepts(active) == active

\* the condition of the SMS block
ShouldDispatch(assistantText, environment) ==
    /\ SuggestsScheduling(assistantText)
    /\ Truthy(environment.CALENDLY_LINK)
    /\ Truthy(environment.CALLER_PHONE)

\* (mutant) to and from exchanged
SmsMessageSwapped(environment, e) ==
    [to |-> environment.TWILIO_NUMBER, from |-> environment.CALLER_PHONE,
     body |-> <<"Please use this link to schedule your paid consultation: ",
                environment.CALENDLY_LINK>>,
     ev |-> e]

\* the argument of twilioClient.messages.create
SmsMessage(environment, e) ==
    [to |-> environment.CALLER_PHONE, from |-> environment.TWILIO_NUMBER,
     body |-> <<"Please use this link to schedule your paid consultation: ",
                environment.CALENDLY_LINK>>,
     ev |-> e]

\* connection.socket.send(frame): the frame handed to the socket, with the
\* socket's readyState at the call.  The call returns normally whatever the
\* readyState (the handler runs after the connection is established, and ws
\* drops, without throwing, a frame given to a socket that is no longer
\* OPEN), so the statement after it always runs.
SocketSend(out, state, frame) == Append(out, [frame |-> frame, readyState |-> state])

\* connection.socket.close()
SocketClose(state) == IF state = "OPEN" THEN "CLOSING" ELSE state

\* One invocation of the handler.  pc is the await it is suspended on (or
\* "done"); userText and assistantText are its local constants.  The other
\* fields are history: the steps it took, whether callActive held when the
\* frame arrived, what the transcription call returned, the clock index
\* at which it evaluated the business-hours policy (0: not yet), and the
\* messages its completion call was given (empty: no call).
Handler(kind, pc, steps) ==
    [kind |-> kind, pc |-> pc, steps |-> steps, userText |-> <<>>, assistantText |-> <<>>,
     live |-> callActive, sttData |-> Pending, at |-> 0, chatArg |-> <<>>]

\* handler e moves to pc, its history extended by steps
Advance(e, pc, steps) ==
    [handlers EXCEPT ![e].pc = pc, ![e].steps = handlers[e].steps \o steps]

Waiting == {"stt", "ttsAH", "chat", "sms", "tts"}

(* ---------------------------------------------------------------------- *)
(* Initial state: app.get('/call') has run for a new connection           *)
(* ---------------------------------------------------------------------- *)
Init ==
    /\ conversation = <<Turn("system", systemPrompt, 0)>>
    /\ callActive = TRUE
    /\ readyState = "OPEN"
    /\ handlers = <<>>
    /\ outbound = <<>>
    /\ smsOut = <<>>
    /\ env \in [CALENDLY_LINK : EnvValues, CALLER_PHONE : EnvValues, TWILIO_NUMBER : {"+1"}]
    /\ clock = 1
    /\ stops = 0
    /\ escaped = 0

(* ---------------------------------------------------------------------- *)
(* Actions                                                                *)
(* ---------------------------------------------------------------------- *)
\* A frame arrives: the handler runs from its first line to its first await
\* (speechToText) or to its end.
Receive(kind) ==
    /\ Len(handlers) < MaxEvents
    /\ readyState # "CLOSED"
    /\ UNCHANGED <<conversation, outbound, smsOut, env, clock>>
    /\ IF ~Accepts(callActive)
       THEN /\ handlers' = Append(handlers, Handler(kind, "done", <<"ignored">>))
            /\ UNCHANGED <<callActive, readyState, stops, escaped>>
       ELSE CASE kind = "badjson" ->
                   \* JSON.parse throws before the try block
                   /\ handlers' = Append(handlers, Handler(kind, "done", <<"throw">>))
                   /\ escaped' = escaped + 1
                   /\ UNCHANGED <<callActive, readyState, stops>>
              [] kind = "nomedia" ->
                   \* msg.media.payload throws inside the try block
                   /\ handlers' = Append(handlers, Handler(kind, "done", <<"caught">>))
                   /\ UNCHANGED <<callActive, readyState, stops, escaped>>
              [] kind = "media" ->
                   /\ handlers' = Append(handlers, Handler(kind, "stt", <<"stt">>))
                   /\ UNCHANGED <<callActive, readyState, stops, escaped>>
              [] kind = "stop" ->
                   /\ handlers' = Append(handlers, Handler(kind, "done", <<"stop">>))
                   /\ callActive' = FALSE
                   /\ readyState' = SocketClose(readyState)
                   /\ stops' = stops + 1
                   /\ UNCHANGED escaped
              [] OTHER ->
                   /\ handlers' = Append(handlers, Handler(kind, "done", <<"noop">>))
                   /\ UNCHANGED <<callActive, readyState, stops, escaped>>

\* speechToText resolves: the handler runs to its next await or to its end
SttResolve(e, data) ==
    /\ handlers[e].pc = "stt"
    /\ UNCHANGED <<callActive, readyState, outbound, smsOut, env, clock, stops, escaped>>
    /\ LET userText == speechToText(data)
       IN  IF userText = <<>>
           THEN /\ handlers' = [Advance(e, "done", <<"empty">>) EXCEPT ![e].sttData = data]
                /\ UNCHANGED conversation
           ELSE /\ conversation' = Push(conversation, "user", userText, e)
                /\ IF ~isBusinessHours(PolicyInstant(clock))
                   THEN handlers' = [Advance(e, "ttsAH", <<"text", "closed", "tts">>)
                                       EXCEPT ![e].userText = userText,
                                              ![e].sttData = data, ![e].at = clock]
                   ELSE handlers' = [Advance(e, "chat", <<"text", "open", "chat">>)
                                       EXCEPT ![e].userText = userText,
                                              ![e].sttData = data, ![e].at = clock,
                                              ![e].chatArg = ChatArgument(
                                                  Push(conversation, "user", userText, e))]

\* speechToText rejects: caught by the handler's catch block
SttReject(e) ==
    /\ handlers[e].pc = "stt"
    /\ handlers' = [Advance(e, "done", <<"sttFail", "caught">>) EXCEPT ![e].sttData = Rejected]
    /\ UNCHANGED <<conversation, callActive, readyState, outbound, smsOut, env, clock,
                   stops, escaped>>

\* (mutant) the after-hours reply is sent but not recorded
TtsAfterHoursResolveNoPush(e) ==
    /\ handlers[e].pc = "ttsAH"
    /\ outbound' = SocketSend(outbound, readyState, MediaFrame(Pcm(afterHoursText), e))
    /\ handlers' = [Advance(e, "done", <<"ttsOk", "send">>) EXCEPT ![e].assistantText = afterHoursText]
    /\ UNCHANGED <<conversation, callActive, readyState, smsOut, env, clock, stops, escaped>>

\* after-hours branch: textToSpeech(afterHoursText) resolves
TtsAfterHoursResolve(e) ==
    /\ handlers[e].pc = "ttsAH"
    /\ outbound' = SocketSend(outbound, readyState, MediaFrame(Pcm(afterHoursText), e))
    /\ conversation' = Push(conversation, "assistant", afterHoursText, e)
    /\ handlers' = [Advance(e, "done", <<"ttsOk", "send">>) EXCEPT ![e].assistantText = afterHoursText]
    /\ UNCHANGED <<callActive, readyState, smsOut, env, clock, stops, escaped>>

TtsAfterHoursReject(e) ==
    /\ handlers[e].pc = "ttsAH"
    /\ handlers' = Advance(e, "done", <<"ttsFail", "caught">>)
    /\ UNCHANGED <<conversation, callActive, readyState, outbound, smsOut, env, clock,
                   stops, escaped>>

\* chatCompletion resolves: push the assistant Turn, then either start the
\* SMS call or go on to textToSpeech
ChatResolve(e, content) ==
    /\ handlers[e].pc = "chat"
    /\ LET assistantText == chatCompletion(content)
       IN  /\ conversation' = Push(conversation, "assistant", assistantText, e)
           /\ IF ShouldDispatch(assistantText, env)
              THEN /\ smsOut' = Append(smsOut, SmsMessage(env, e))
                   /\ handlers' = [Advance(e, "sms", <<"chatOk", "sms">>)
                                     EXCEPT ![e].assistantText = assistantText]
              ELSE /\ smsOut' = smsOut
                   /\ handlers' = [Advance(e, "tts", <<"chatOk", "tts">>)
                                     EXCEPT ![e].assistantText = assistantText]
    /\ UNCHANGED <<callActive, readyState, outbound, env, clock, stops, escaped>>

\* (mutant) the catch block takes the event's user Turn back
ChatRejectRollsBack(e) ==
    /\ handlers[e].pc = "chat"
    /\ conversation' = SelectSeq(conversation, LAMBDA t : t.ev # e)
    /\ handlers' = Advance(e, "done", <<"chatFail", "caught">>)
    /\ UNCHANGED <<callActive, readyState, outbound, smsOut, env, clock, stops, escaped>>

\* (mutant) the failure is swallowed around the call and the handler goes
\* on with an empty reply
ChatRejectFallsThrough(e) ==
    /\ handlers[e].pc = "chat"
    /\ conversation' = Push(conversation, "assistant", <<>>, e)
    /\ handlers' = Advance(e, "tts", <<"chatFail", "tts">>)
    /\ UNCHANGED <<callActive, readyState, outbound, smsOut, env, clock, stops, escaped>>

ChatReject(e) ==
    /\ handlers[e].pc = "chat"
    /\ handlers' = Advance(e, "done", <<"chatFail", "caught">>)
    /\ UNCHANGED <<conversation, callActive, readyState, outbound, smsOut, env, clock,
                   stops, escaped>>

\* twilioClient.messages.create resolves
SmsResolve(e) ==
    /\ handlers[e].pc = "sms"
    /\ handlers' = Advance(e, "tts", <<"smsOk", "tts">>)
    /\ UNCHANGED <<conversation, callActive, readyState, outbound, smsOut, env, clock,
                   stops, escaped>>

\* (mutant) no inner try/catch: the rejection reaches the outer catch
SmsRejectAborts(e) ==
    /\ handlers[e].pc = "sms"
    /\ handlers' = Advance(e, "done", <<"smsFail", "caught">>)
    /\ UNCHANGED <<conversation, callActive, readyState, outbound, smsOut, env, clock,
                   stops, escaped>>

\* twilioClient.messages.create rejects: the inner catch logs it
SmsReject(e) ==
    /\ handlers[e].pc = "sms"
    /\ handlers' = Advance(e, "tts", <<"smsFail", "tts">>)
    /\ UNCHANGED <<conversation, callActive, readyState, outbound, smsOut, env, clock,
                   stops, escaped>>

\* textToSpeech(assistantText) resolves: send the frame
TtsResolve(e) ==
    /\ handlers[e].pc = "tts"
    /\ outbound' = SocketSend(outbound, readyState, MediaFrame(Pcm(handlers[e].assistantText), e))
    /\ handlers' = Advance(e, "done", <<"ttsOk", "send">>)
    /\ UNCHANGED <<conversation, callActive, readyState, smsOut, env, clock, stops, escaped>>

\* (mutant) the catch block takes the event's assistant Turn back
TtsRejectRollsBack(e) ==
    /\ handlers[e].pc = "tts"
    /\ conversation' = SelectSeq(conversation,
                                 LAMBDA t : ~(t.ev = e /\ t.role = "assistant"))
    /\ handlers' = Advance(e, "done", <<"ttsFail", "caught">>)
    /\ UNCHANGED <<callActive, readyState, outbound, smsOut, env, clock, stops, escaped>>

TtsReject(e) ==
    /\ handlers[e].pc = "tts"
    /\ handlers' = Advance(e, "done", <<"ttsFail", "caught">>)
    /\ UNCHANGED <<conversation, callActive, readyState, outbound, smsOut, env, clock,
                   stops, escaped>>

\* the wall clock reaches the next instant
Tick ==
    /\ clock < Len(ClockSamples)
    /\ clock' = clock + 1
    /\ UNCHANGED <<conversation, callActive, readyState, handlers, outbound, smsOut, env,
                   stops, escaped>>

\* the connection goes down (peer hang-up, or the closing handshake ends);
\* the route registers no 'close' listener, so nothing else changes
ConnectionClosed ==
    /\ readyState # "CLOSED"
    /\ readyState' = "CLOSED"
    /\ UNCHANGED <<conversation, callActive, handlers, outbound, smsOut, env, clock,
                   stops, escaped>>

Next ==
    \/ \E kind \in FrameKinds : Receive(kind)
    \/ \E e \in DOMAIN handlers, data \in RawTranscripts : SttResolve(e, data)
    \/ \E e \in DOMAIN handlers : SttReject(e)
    \/ \E e \in DOMAIN handlers : TtsAfterHoursResolve(e)
    \/ \E e \in DOMAIN handlers : TtsAfterHoursReject(e)
    \/ \E e \in DOMAIN handlers, content \in ChatReplies : ChatResolve(e, content)
    \/ \E e \in DOMAIN handlers : ChatReject(e)
    \/ \E e \in DOMAIN handlers : SmsResolve(e)
    \/ \E e \in DOMAIN handlers : SmsReject(e)
    \/ \E e \in DOMAIN handlers : TtsResolve(e)
    \/ \E e \in DOMAIN handlers : TtsReject(e)
    \/ Tick
    \/ ConnectionClosed

Spec == Init /\ [][Next]_vars

(* ---------------------------------------------------------------------- *)
(* Vocabulary of the properties                                           *)
(* ---------------------------------------------------------------------- *)
Events == DOMAIN handlers

\* positions of the Turns, send calls and SMS calls made by invocation e
TurnsOf(e) == {i \in DOMAIN conversation : conversation[i].ev = e}
FramesOf(e) == {i \in DOMAIN outbound : outbound[i].frame.ev = e}
SmsOf(e) == {i \in DOMAIN smsOut : smsOut[i].ev = e}

\* how many times invocation e took step op
Took(e, op) == Cardinality({i \in DOMAIN handlers[e].steps : handlers[e].steps[i] = op})

InFlight == {e \in Events : handlers[e].pc \in Waiting}

\* invocation e made no adapter call after transcription and left no trace
NoEffect(e) ==
    /\ TurnsOf(e) = {}
    /\ FramesOf(e) = {}
    /\ SmsOf(e) = {}
    /\ Took(e, "chat") = 0
    /\ Took(e, "sms") = 0
    /\ Took(e, "tts") = 0

(* ---------------------------------------------------------------------- *)
(* C1-C4: ordering and termination                                        *)
(* ---------------------------------------------------------------------- *)
\* C1: single-flight per session: at no time are two media pipelines of the
\* session in flight, i.e. no pipeline begins while an earlier one is still
\* suspended on a remote call.
C1_SingleFlight == Cardinality(InFlight) <= 1

\* C2: Turn order equals arrival order: the Turns of an earlier event all
\* precede the Turns of a later event in the transcript.
C2_TurnOrderIsArrivalOrder ==
    \A i, j \in DOMAIN conversation : i < j => conversation[i].ev <= conversation[j].ev

\* C3: once the session is TERMINATED (callActive false) the transcript is
\* frozen: no step appends a Turn.
C3_FrozenAfterTerminated == [][~callActive => conversation' = conversation]_vars

\* C4: after the session became TERMINATED, a late adapter result is
\* discarded: no frame is handed to the socket and no dispatch call is made.
C4_DiscardAfterTerminated ==
    [][~callActive => (outbound' = outbound /\ smsOut' = smsOut)]_vars

(* ---------------------------------------------------------------------- *)
(* C5: TERMINATED is absorbing                                            *)
(* ---------------------------------------------------------------------- *)
\* C5: callActive goes from true to false at most once and stays false;
\* an event that arrives when it is false (media or a repeated stop) starts
\* no pipeline: no adapter call, no Turn, no frame, no dispatch; and the step
\* that receives it changes nothing of the session.
C5_TerminatedAbsorbing ==
    /\ [](/\ stops <= 1
          /\ (stops = 1) = ~callActive
          /\ \A e \in Events : ~handlers[e].live =>
                /\ handlers[e].pc = "done"
                /\ Took(e, "stt") = 0
                /\ NoEffect(e))
    /\ [][~callActive =>
            /\ ~callActive'
            /\ (Len(handlers') > Len(handlers) =>
                  UNCHANGED <<conversation, readyState, outbound, smsOut, stops, escaped>>)]_vars

\* a media frame or a second stop frame arrived after the stop
C5_Witness ==
    \E e \in Events : ~handlers[e].live /\ handlers[e].kind \in {"media", "stop"}

(* ---------------------------------------------------------------------- *)
(* C6: the system Turn                                                    *)
(* ---------------------------------------------------------------------- *)
\* C6: the transcript is never empty, its first Turn is the system Turn seeded
\* at connection setup, and no later Turn has role system.
C6_SystemTurnFirstOnly ==
    /\ Len(conversation) >= 1
    /\ conversation[1] = Turn("system", systemPrompt, 0)
    /\ \A i \in 2..Len(conversation) : conversation[i].role # "system"

\* a user and an assistant Turn were appended and a stop was handled
C6_Witness ==
    /\ stops = 1
    /\ \E i, j \in DOMAIN conversation :
          conversation[i].role = "user" /\ conversation[j].role = "assistant"

(* ---------------------------------------------------------------------- *)
(* C7: empty or failed transcription                                      *)
(* ---------------------------------------------------------------------- *)
\* what the transcription call gave: nothing, or only white space
IsBlank(data) ==
    IF data = Undefined THEN TRUE ELSE \A i \in DOMAIN data : data[i] \in Whitespace

Dropped(h) == h.sttData = Rejected \/ (h.sttData # Pending /\ IsBlank(h.sttData))

\* C7: a media event whose transcription is blank (empty after trimming) or
\* fails appends no Turn, sends no frame, calls neither completion, dispatch
\* nor synthesis, and the step that ends it leaves the session state alone.
C7_BlankTranscriptionNoEffect ==
    /\ [](\A e \in Events : Dropped(handlers[e]) => handlers[e].pc = "done" /\ NoEffect(e))
    /\ [][\A e \in DOMAIN handlers :
            (handlers[e].pc = "stt" /\ Dropped(handlers'[e])) =>
               UNCHANGED <<conversation, callActive, readyState, outbound, smsOut, stops,
                           escaped>>]_vars

\* the first event was dropped for a white-space transcription, and the next
\* event went through to its reply
C7_Witness ==
    /\ Len(handlers) = 2
    /\ handlers[1].sttData = <<" ", "\n">>
    /\ callActive
    /\ Took(2, "send") = 1
    /\ FramesOf(2) # {}

(* ---------------------------------------------------------------------- *)
(* C8: after-hours branch                                                 *)
(* ---------------------------------------------------------------------- *)
AssistantTurnsOf(e) == {i \in TurnsOf(e) : conversation[i].role = "assistant"}

\* C8: the branch an event takes is decided by the policy at the instant the
\* event is processed (handlers[e].at); after hours there is no completion
\* call and no dispatch, and when synthesis succeeds exactly one assistant
\* Turn with the fixed message and exactly one frame carrying it.
C8_AfterHoursBranch ==
    \A e \in Events : handlers[e].at # 0 =>
        IF isBusinessHours(ClockSamples[handlers[e].at])
        THEN Took(e, "chat") = 1 /\ handlers[e].pc # "ttsAH"
        ELSE /\ Took(e, "chat") = 0
             /\ Took(e, "sms") = 0
             /\ SmsOf(e) = {}
             /\ Took(e, "ttsOk") = 1 =>
                  /\ Cardinality(AssistantTurnsOf(e)) = 1
                  /\ \A i \in AssistantTurnsOf(e) : conversation[i].content = afterHoursText
                  /\ Cardinality(FramesOf(e)) = 1
                  /\ \A i \in FramesOf(e) :
                        outbound[i].frame = MediaFrame(Pcm(afterHoursText), e)

\* on one session, an event processed in business hours went to the
\* completion engine and a later one, processed after hours, got the fixed
\* reply
C8_Witness ==
    \E e1, e2 \in Events :
        /\ e1 < e2
        /\ Took(e1, "chat") = 1
        /\ handlers[e2].at # 0
        /\ ~isBusinessHours(ClockSamples[handlers[e2].at])
        /\ Took(e2, "ttsOk") = 1
        /\ FramesOf(e2) # {}

(* ---------------------------------------------------------------------- *)
(* C9: dispatch decision                                                  *)
(* ---------------------------------------------------------------------- *)
LowerChar(c) == IF c \in DOMAIN UpperToLower THEN UpperToLower[c] ELSE c

\* w occurs in text at position i, letter case ignored
OccursAt(text, w, i) ==
    /\ i + Len(w) - 1 <= Len(text)
    /\ \A k \in 1..Len(w) : LowerChar(text[i + k - 1]) = w[k]

ContainsSubstring(text, w) == \E i \in 1..Len(text) : OccursAt(text, w, i)

ContainsWholeWord(text, w) ==
    \E i \in 1..Len(text) :
        /\ OccursAt(text, w, i)
        /\ (i = 1 \/ text[i - 1] \notin WordChars)
        /\ (i + Len(w) - 1 = Len(text) \/ text[i + Len(w)] \notin WordChars)

Configured == env.CALENDLY_LINK \notin {Unset, ""} /\ env.CALLER_PHONE \notin {Unset, ""}

\* events whose completion call returned, i.e. that produced an assistant Turn
Completed == {e \in Events : Took(e, "chatOk") = 1}

\* C9 as stated: one dispatch call iff the assistant text contains "schedule"
\* or "book" as a substring (any case) and both settings are configured.
C9_DispatchOnSubstring ==
    \A e \in Completed :
        Cardinality(SmsOf(e)) =
            IF /\ \/ ContainsSubstring(handlers[e].assistantText, kwSchedule)
                  \/ ContainsSubstring(handlers[e].assistantText, kwBook)
               /\ Configured
            THEN 1 ELSE 0

\* C9 amended: one dispatch call iff the assistant text contains "schedule" or
\* "book" as a whole word (any case) and both settings are configured; no
\* call otherwise.
C9_DispatchOnWholeWord ==
    \A e \in Completed :
        Cardinality(SmsOf(e)) =
            IF /\ \/ ContainsWholeWord(handlers[e].assistantText, kwSchedule)
                  \/ ContainsWholeWord(handlers[e].assistantText, kwBook)
               /\ Configured
            THEN 1 ELSE 0

\* with both settings configured, a reply with two whole-word occurrences
\* was dispatched once and the reply "booking" was not dispatched
C9_Witness ==
    /\ Configured
    /\ \E e1, e2 \in Completed :
          /\ Len(handlers[e1].assistantText) = 17
          /\ Cardinality(SmsOf(e1)) = 1
          /\ Len(handlers[e2].assistantText) = 7
          /\ SmsOf(e2) = {}

(* ---------------------------------------------------------------------- *)
(* C10: dispatch failure                                                  *)
(* ---------------------------------------------------------------------- *)
\* C10: when the dispatch call fails, the step that handles the failure
\* changes nothing of the session and goes on to synthesis; the assistant
\* Turn stays as pushed, the dispatch call is not repeated, and when the
\* synthesis succeeds exactly one frame carrying the assistant text is sent,
\* the same frame as after a successful dispatch.
C10_DispatchFailureIsolated ==
    /\ [](\A e \in Events : (Took(e, "smsFail") = 1 \/ Took(e, "smsOk") = 1) =>
            /\ Cardinality(AssistantTurnsOf(e)) = 1
            /\ \A i \in AssistantTurnsOf(e) :
                  conversation[i].content = handlers[e].assistantText
            /\ Took(e, "sms") = 1
            /\ Cardinality(SmsOf(e)) = 1
            /\ Took(e, "tts") = 1
            /\ Took(e, "caught") = Took(e, "ttsFail")
            /\ Cardinality(FramesOf(e)) = Took(e, "ttsOk")
            /\ \A i \in FramesOf(e) :
                  outbound[i].frame = MediaFrame(Pcm(handlers[e].assistantText), e))
    /\ [][\A e \in DOMAIN handlers :
            (handlers[e].pc = "sms" /\ handlers'[e].pc # "sms") =>
               /\ handlers'[e].pc = "tts"
               /\ UNCHANGED <<conversation, callActive, readyState, outbound, smsOut,
                              stops, escaped>>]_vars

\* a dispatch failed, the session is still active and the reply was sent
C10_Witness ==
    \E e \in Events :
        /\ Took(e, "smsFail") = 1
        /\ callActive
        /\ Took(e, "ttsOk") = 1
        /\ Cardinality(FramesOf(e)) = 1

(* ---------------------------------------------------------------------- *)
(* Fairness: the remote services answer                                   *)
(* ---------------------------------------------------------------------- *)
\* the transcription, completion or synthesis call that invocation e is
\* suspended on settles (resolves or rejects)
AdapterResponds(e) ==
    /\ e \in DOMAIN handlers
    /\ \/ \E data \in RawTranscripts : SttResolve(e, data)
       \/ SttReject(e)
       \/ TtsAfterHoursResolve(e)
       \/ TtsAfterHoursReject(e)
       \/ \E content \in ChatReplies : ChatResolve(e, content)
       \/ ChatReject(e)
       \/ TtsResolve(e)
       \/ TtsReject(e)

\* the twilioClient.messages.create call of invocation e settles
DispatcherResponds(e) ==
    /\ e \in DOMAIN handlers
    /\ (SmsResolve(e) \/ SmsReject(e))

\* every adapter call is answered; the dispatcher may stay silent
SilentDispatcherSpec ==
    Spec /\ \A e \in 1..MaxEvents : WF_vars(AdapterResponds(e))

\* every adapter call and every dispatcher call is answered
FairSpec ==
    /\ Spec
    /\ \A e \in 1..MaxEvents : WF_vars(AdapterResponds(e))
    /\ \A e \in 1..MaxEvents : WF_vars(DispatcherResponds(e))

(* ---------------------------------------------------------------------- *)
(* C11: the dispatcher and the reply                                      *)
(* ---------------------------------------------------------------------- *)
\* C11: the reply does not wait for the dispatcher: once the dispatch call of
\* an event is made, the event's pipeline reaches its end (frame sent, or
\* synthesis failed) provided synthesis answers, even if the dispatcher
\* never does.
C11_ReplyNotBlockedByDispatch ==
    \A e \in 1..MaxEvents :
        (e \in DOMAIN handlers /\ handlers[e].pc = "sms")
            ~> (e \in DOMAIN handlers /\ handlers[e].pc = "done")

(* ---------------------------------------------------------------------- *)
(* C12: malformed frames                                                  *)
(* ---------------------------------------------------------------------- *)
\* C12: a frame that is not JSON, or a media frame without a media payload,
\* is dropped inside the handler: no error leaves the handler, no Turn, no
\* frame, no adapter call, and the session stays active.
C12_MalformedFrameDropped ==
    /\ escaped = 0
    /\ \A e \in Events : handlers[e].kind \in {"badjson", "nomedia"} =>
          /\ Took(e, "throw") = 0
          /\ Took(e, "stt") = 0
          /\ NoEffect(e)
          /\ handlers[e].pc = "done"

(* ---------------------------------------------------------------------- *)
(* C13: completion failure                                                *)
(* ---------------------------------------------------------------------- *)
\* C13: when the completion call of an event fails, the event ends there: no
\* assistant Turn, no dispatch, no synthesis, no frame, no second completion
\* call; the failing step changes nothing of the session.
C13_CompletionFailureDropsEvent ==
    /\ [](\A e \in Events : Took(e, "chatFail") = 1 =>
            /\ handlers[e].pc = "done"
            /\ AssistantTurnsOf(e) = {}
            /\ SmsOf(e) = {}
            /\ FramesOf(e) = {}
            /\ Took(e, "chat") = 1
            /\ Took(e, "sms") = 0
            /\ Took(e, "tts") = 0)
    /\ [][\A e \in DOMAIN handlers :
            (handlers[e].pc = "chat" /\ Took(e, "chatFail")' = 1) =>
               UNCHANGED <<conversation, callActive, readyState, outbound, smsOut, stops,
                           escaped>>]_vars

\* the completion call of the first event failed; the session is still
\* active and the next event got its reply
C13_Witness ==
    /\ Len(handlers) = 2
    /\ Took(1, "chatFail") = 1
    /\ callActive
    /\ Took(2, "send") = 1
    /\ FramesOf(2) # {}

(* ---------------------------------------------------------------------- *)
(* C14: synthesis failure in the business-hours branch                    *)
(* ---------------------------------------------------------------------- *)
\* C14: when synthesis of a completion reply fails, the event's assistant
\* Turn stays in the transcript, its dispatch call (if any) stands, no frame
\* is sent for it, and the failing step changes nothing of the session.
C14_SynthesisFailureKeepsTurn ==
    /\ [](\A e \in Events : (Took(e, "chatOk") = 1 /\ Took(e, "ttsFail") = 1) =>
            /\ handlers[e].pc = "done"
            /\ Cardinality(AssistantTurnsOf(e)) = 1
            /\ \A i \in AssistantTurnsOf(e) :
                  conversation[i].content = handlers[e].assistantText
            /\ Cardinality(SmsOf(e)) = Took(e, "sms")
            /\ FramesOf(e) = {})
    /\ [][\A e \in DOMAIN handlers :
            (handlers[e].pc = "tts" /\ Took(e, "ttsFail")' = 1) =>
               UNCHANGED <<conversation, callActive, readyState, outbound, smsOut, stops,
                           escaped>>]_vars

\* synthesis failed for a reply that had been dispatched; the session is
\* still active
C14_Witness ==
    \E e \in Events :
        /\ Took(e, "chatOk") = 1
        /\ Took(e, "ttsFail") = 1
        /\ Cardinality(SmsOf(e)) = 1
        /\ callActive

(* ---------------------------------------------------------------------- *)
(* C15: connection loss                                                   *)
(* ---------------------------------------------------------------------- *)
\* C15: when the connection has closed the session is TERMINATED (callActive
\* false), and from then on no Turn is appended and no frame is handed to the
\* socket by a pipeline still in flight.
C15_ConnectionLossTerminates ==
    /\ [](readyState = "CLOSED" => ~callActive)
    /\ [][readyState = "CLOSED" =>
            (conversation' = conversation /\ outbound' = outbound)]_vars

(* ---------------------------------------------------------------------- *)
(* C16: business-hours success path                                       *)
(* ---------------------------------------------------------------------- *)
UserTurnsOf(e) == {i \in TurnsOf(e) : conversation[i].role = "user"}

\* the dispatch condition in the claims' words
Qualifies(text) == ContainsWholeWord(text, kwSchedule) \/ ContainsWholeWord(text, kwBook)

\* C16: an event processed in business hours whose completion and synthesis
\* succeeded, with no stop handled: one user Turn with the transcribed text,
\* then one assistant Turn with the completion text, one completion call, one
\* frame carrying the reply, and, when the text qualifies and both settings
\* are configured, one dispatch call to the configured contact whose body
\* contains the configured link.
C16_BusinessHoursSuccessPath ==
    \A e \in Events :
        (stops = 0 /\ Took(e, "open") = 1 /\ Took(e, "chatOk") = 1 /\ Took(e, "ttsOk") = 1) =>
            /\ Cardinality(UserTurnsOf(e)) = 1
            /\ Cardinality(AssistantTurnsOf(e)) = 1
            /\ \A i \in UserTurnsOf(e) :
                  /\ conversation[i].content = handlers[e].userText
                  /\ conversation[i].content # <<>>
                  /\ \A j \in AssistantTurnsOf(e) :
                        /\ i < j
                        /\ conversation[j].content = handlers[e].assistantText
            /\ Took(e, "chat") = 1
            /\ Cardinality(FramesOf(e)) = 1
            /\ \A i \in FramesOf(e) :
                  outbound[i].frame = MediaFrame(Pcm(handlers[e].assistantText), e)
            /\ (Qualifies(handlers[e].assistantText) /\ Configured) =>
                  /\ Cardinality(SmsOf(e)) = 1
                  /\ \A i \in SmsOf(e) :
                        /\ smsOut[i].to = env.CALLER_PHONE
                        /\ \E k \in DOMAIN smsOut[i].body :
                              smsOut[i].body[k] = env.CALENDLY_LINK

\* an event went through the whole business-hours path with a dispatch
C16_Witness ==
    \E e \in Events :
        /\ stops = 0
        /\ Took(e, "open") = 1
        /\ Took(e, "ttsOk") = 1
        /\ Qualifies(handlers[e].assistantText)
        /\ Cardinality(SmsOf(e)) = 1
        /\ Cardinality(FramesOf(e)) = 1

(* ---------------------------------------------------------------------- *)
(* C17: no media event is dropped                                         *)
(* ---------------------------------------------------------------------- *)
\* C17: every media frame that arrives while the session is active gets its
\* pipeline started (its transcription is requested), whatever else is in
\* flight, and, the remote calls all being answered, that pipeline reaches
\* its end with the transcription settled.
C17_EveryMediaEventRuns ==
    /\ [](\A e \in Events :
            (handlers[e].kind = "media" /\ handlers[e].live) => Took(e, "stt") = 1)
    /\ \A e \in 1..MaxEvents :
          (e \in DOMAIN handlers /\ handlers[e].kind = "media" /\ handlers[e].live)
             ~> (/\ e \in DOMAIN handlers
                 /\ handlers[e].pc = "done"
                 /\ handlers[e].sttData # Pending)

\* two media events were in flight together and both reached their end
C17_Witness ==
    /\ Len(handlers) = 2
    /\ \A e \in Events :
          /\ handlers[e].kind = "media"
          /\ handlers[e].pc = "done"
          /\ handlers[e].sttData # Pending
    /\ stops = 0
    /\ \E i \in DOMAIN conversation :
          /\ i < Len(conversation)
          /\ conversation[i].ev = 2
          /\ conversation[i + 1].ev = 1

(* ---------------------------------------------------------------------- *)
(* C18: the argument of the completion call                               *)
(* ---------------------------------------------------------------------- *)
\* events that called the completion engine
Asked == {e \in Events : Took(e, "chat") = 1}

\* C18: the completion engine is given the whole transcript as it is at the
\* call: it starts with the system Turn, ends with the calling event's user
\* Turn, and is the transcript up to and including that Turn.
C18_CompletionGetsWholeTranscript ==
    \A e \in Asked :
        LET arg == handlers[e].chatArg
        IN  /\ Len(arg) >= 2
            /\ arg[1] = Turn("system", systemPrompt, 0)
            /\ arg[Len(arg)] = Turn("user", handlers[e].userText, e)
            /\ Len(arg) <= Len(conversation)
            /\ arg = SubSeq(conversation, 1, Len(arg))
            /\ UserTurnsOf(e) = {Len(arg)}

\* C18, at the call: the step in which an event calls the completion engine
\* leaves the event's argument equal to the whole transcript, both ends
\* included, and the state form above holds ever after.
C18_ArgumentIsTranscriptAtCall ==
    /\ []C18_CompletionGetsWholeTranscript
    /\ [][\A e \in 1..MaxEvents :
            (e \in Asked' /\ e \notin Asked) =>
                /\ handlers'[e].chatArg = conversation'
                /\ conversation' = Append(conversation,
                                          Turn("user", handlers'[e].userText, e))]_vars

\* the second event's completion call was given a transcript that holds the
\* first event's Turns
C18_Witness ==
    /\ 2 \in Asked
    /\ Len(handlers[2].chatArg) >= 4
    /\ \E i \in DOMAIN handlers[2].chatArg : handlers[2].chatArg[i].ev = 1

(* ---------------------------------------------------------------------- *)
(* C19: counting                                                          *)
(* ---------------------------------------------------------------------- *)
RoleCount(conv, role) == Cardinality({i \in DOMAIN conv : conv[i].role = role})

\* C19: frames sent never outnumber assistant Turns; in every prefix of the
\* transcript assistant Turns never outnumber user Turns; an event has at most
\* one user Turn, one assistant Turn, one frame and one dispatch call.
C19_Counting ==
    /\ Len(outbound) <= RoleCount(conversation, "assistant")
    /\ \A n \in 0..Len(conversation) :
          RoleCount(SubSeq(conversation, 1, n), "assistant")
             <= RoleCount(SubSeq(conversation, 1, n), "user")
    /\ \A e \in Events :
          /\ Cardinality(UserTurnsOf(e)) <= 1
          /\ Cardinality(AssistantTurnsOf(e)) <= 1
          /\ Cardinality(FramesOf(e)) <= 1
          /\ Cardinality(SmsOf(e)) <= 1

\* two events each left a user Turn, an assistant Turn and a frame, one
\* after hours and one with a dispatch
C19_Witness ==
    /\ Len(outbound) = 2
    /\ RoleCount(conversation, "assistant") = 2
    /\ Len(smsOut) = 1
    /\ \E e \in Events : Took(e, "closed") = 1

(* ---------------------------------------------------------------------- *)
(* C20: no rollback                                                       *)
(* ---------------------------------------------------------------------- *)
\* events that failed after their user Turn was pushed: completion failed,
\* or synthesis failed in the after-hours branch
Orphaned == {e \in Events :
               \/ Took(e, "chatFail") = 1
               \/ (Took(e, "closed") = 1 /\ Took(e, "ttsFail") = 1)}

\* C20: such an event keeps its user Turn and has no assistant Turn, and the
\* user Turn is in the argument of every completion call made after it was
\* pushed.
C20_NoRollback ==
    \A e \in Orphaned :
        /\ Cardinality(UserTurnsOf(e)) = 1
        /\ AssistantTurnsOf(e) = {}
        /\ \A i \in UserTurnsOf(e) :
              /\ conversation[i].content = handlers[e].userText
              /\ \A f \in Asked \ {e} :
                    (\E j \in UserTurnsOf(f) : i < j) =>
                        /\ Len(handlers[f].chatArg) >= i
                        /\ handlers[f].chatArg[i] = conversation[i]

\* two consecutive user Turns, the first an orphan of a failed completion,
\* and the later event's completion call was given the orphan
C20_Witness ==
    \E e \in Orphaned, f \in Asked :
        /\ Took(e, "chatFail") = 1
        /\ handlers[e].pc = "done"
        /\ e < f
        /\ \E i \in UserTurnsOf(e) :
              /\ i + 1 \in UserTurnsOf(f)
              /\ handlers[f].chatArg[i] = conversation[i]

=============================================================================
